---- MODULE Spec2Model ----
(***************************************************************************)
(* resetprop: the property store of native/src/resetprop/resetprop.cpp.   *)
(*                                                                         *)
(* A property name is a sequence of one-character strings, a value is a   *)
(* string.  The live store (bionic's shared property area) and the        *)
(* persisted store (persist.cpp) are maps from names to values; the calls *)
(* resetprop.cpp issues against them are logged per operation.            *)
(***************************************************************************)
EXTENDS Integers, Sequences, FiniteSets, TLC

(***************************************************************************)
(* Bounds of the model.                                                    *)
(***************************************************************************)
\* longest candidate string handed to the name validator
MaxLen == 4
\* how many entry-point calls one process makes
MaxCalls == 2
\* most lines of a property file
MaxFileLen == 3

(***************************************************************************)
(* Characters.  Ord is the byte value of a character, as the comparisons  *)
(* of check_legal_property_name read it.                                   *)
(***************************************************************************)
Alphabet == {"a", "z", "A", "Z", "0", "9", ".", "-", "@", ":", "_",
             "/", "{"}

Ord(c) ==
    CASE c = "a" -> 97  [] c = "z" -> 122 [] c = "A" -> 65 [] c = "Z" -> 90
      [] c = "0" -> 48  [] c = "9" -> 57  [] c = "." -> 46 [] c = "-" -> 45
      [] c = "@" -> 64  [] c = ":" -> 58  [] c = "_" -> 95 [] c = "/" -> 47
      [] c = "{" -> 123
      [] c = "r" -> 114 [] c = "o" -> 111 [] c = "p" -> 112 [] c = "e" -> 101
      [] c = "s" -> 115 [] c = "i" -> 105 [] c = "t" -> 116 [] c = "b" -> 98

\* all strings over Alphabet of length at most n
StringsUpTo(n) == UNION {[1..k -> Alphabet] : k \in 0..n}

(***************************************************************************)
(* check_legal_property_name                                               *)
(***************************************************************************)
\* the character classes accepted in the loop body, for a name[i] that is no dot
LegalChar(c) ==
    \/ c = "_" \/ c = "-" \/ c = "@" \/ c = ":"
    \/ (Ord(c) >= Ord("a") /\ Ord(c) <= Ord("z"))
    \/ (Ord(c) >= Ord("A") /\ Ord(c) <= Ord("Z"))
    \/ (Ord(c) >= Ord("0") /\ Ord(c) <= Ord("9"))

\* the for loop from index i (1-based) on: TRUE when it runs to the end
RECURSIVE NameLoop(_, _)
NameLoop(name, i) ==
    IF i > Len(name) THEN TRUE
    ELSE IF name[i] = "."
         THEN IF name[i - 1] = "." THEN FALSE ELSE NameLoop(name, i + 1)
         ELSE IF LegalChar(name[i]) THEN NameLoop(name, i + 1) ELSE FALSE

\* mutant: the test for ".." is left out of the loop
check_legal_no_dotdot(name) ==
    LET namelen == Len(name)
    IN  IF namelen < 1 THEN FALSE
        ELSE IF name[1] = "." THEN FALSE
        ELSE IF name[namelen] = "." THEN FALSE
        ELSE \A i \in 1..namelen : name[i] = "." \/ LegalChar(name[i])

check_legal_property_name(name) ==
    LET namelen == Len(name)
    IN  IF namelen < 1 THEN FALSE
        ELSE IF name[1] = "." THEN FALSE
        ELSE IF name[namelen] = "." THEN FALSE
        ELSE NameLoop(name, 1)

\* str_starts(name, prefix)
str_starts(s, prefix) ==
    /\ Len(s) >= Len(prefix)
    /\ SubSeq(s, 1, Len(prefix)) = prefix

RoPrefix == <<"r", "o", ".">>
PersistPrefix == <<"p", "e", "r", "s", "i", "s", "t", ".">>

(***************************************************************************)
(* PropFlags: a bit mask, bit 0 skip-service, bit 1 persist, bit 2 context *)
(***************************************************************************)
NoFlags == 0
isSkipSvc(flags) == flags % 2 = 1
isPersist(flags) == (flags \div 2) % 2 = 1
isContext(flags) == (flags \div 4) % 2 = 1
setSkipSvc(flags) == IF isSkipSvc(flags) THEN flags ELSE flags + 1
setPersist(flags) == IF isPersist(flags) THEN flags ELSE flags + 2
setContext(flags) == IF isContext(flags) THEN flags ELSE flags + 4
AllFlags == 0..7

(***************************************************************************)
(* The names, values and files the operations are called with.             *)
(***************************************************************************)
nPlain == <<"a">>
nRo == <<"r", "o", ".", "a">>
nPersist == <<"p", "e", "r", "s", "i", "s", "t", ".", "a">>
\* rejected by the validator although they carry a prefix
nBadPersist == <<"p", "e", "r", "s", "i", "s", "t", ".">>
nBadRo == <<"r", "o", ".", ".", "a">>

LegalNames == {nPlain, nRo, nPersist}
IllegalNames == {nBadPersist, nBadRo}
Names == LegalNames \cup IllegalNames
\* the order in which std::map iterates the names (byte-wise ascending)
NameOrder == <<nPlain, nBadPersist, nPersist, nBadRo, nRo>>

Values == {"", "x", "xx"}
\* no entry (a null prop_info, a null context, no persisted record)
Absent == "<null>"

(***************************************************************************)
(* Live store adapter: the __system_property_* functions.  A store lv maps *)
(* every name to its value or to Absent.  A write may be refused by the    *)
(* platform (ok = FALSE): the store is then left as it was.                *)
(***************************************************************************)
system_property_find(lv, name) == lv[name] # Absent

\* read_prop_with_cb with a prop_to_string callback: the value of the entry
read_prop_with_cb(lv, name) == lv[name]

system_property_add(lv, name, value, ok) ==
    IF ok /\ lv[name] = Absent
    THEN [ret |-> 0, live |-> [lv EXCEPT ![name] = value]]
    ELSE [ret |-> -1, live |-> lv]

\* in-place update; the storage of a read-only entry has the size of its
\* value, so a longer value does not go through __system_property_update
system_property_update(lv, name, value, ok) ==
    IF /\ ok
       /\ lv[name] # Absent
       /\ (str_starts(name, RoPrefix) => Len(value) <= Len(lv[name]))
    THEN [ret |-> 0, live |-> [lv EXCEPT ![name] = value]]
    ELSE [ret |-> -1, live |-> lv]

\* the mediated path: property_service creates or updates the entry, and
\* refuses to change a read-only property that exists
system_property_set(lv, name, value, ok) ==
    IF ok /\ ~(str_starts(name, RoPrefix) /\ lv[name] # Absent)
    THEN [ret |-> 0, live |-> [lv EXCEPT ![name] = value]]
    ELSE [ret |-> -1, live |-> lv]

\* fails when there is no such entry; prune only trims empty trie nodes
system_property_delete(lv, name, prune) ==
    IF lv[name] # Absent
    THEN [ret |-> 0, live |-> [lv EXCEPT ![name] = Absent]]
    ELSE [ret |-> -1, live |-> lv]

\* the entries system_property_foreach visits
system_property_foreach(lv) == {n \in DOMAIN lv : lv[n] # Absent}

\* the SELinux context of a name, Absent (null) when none matches
system_property_get_context(name) ==
    IF name = nPlain THEN Absent ELSE "u:object_r:default_prop:s0"

(***************************************************************************)
(* Persisted store adapter (persist.cpp)                                   *)
(***************************************************************************)
persist_getprop(ps, name) == IF ps[name] = Absent THEN "" ELSE ps[name]

persist_deleteprop(ps, name) ==
    IF ps[name] # Absent
    THEN [ok |-> TRUE, pers |-> [ps EXCEPT ![name] = Absent]]
    ELSE [ok |-> FALSE, pers |-> ps]

persist_getprops(ps) == {n \in DOMAIN ps : ps[n] # Absent}

\* one logged adapter call: function, name, argument, result
Call(fn, name, arg, res) == <<fn, name, arg, res>>
Status(ret) == IF ret = 0 THEN "0" ELSE "-1"
PersistFns == {"persist_getprop", "persist_getprops", "persist_deleteprop"}
LiveFns == {"find", "read", "add", "update", "set", "delete", "foreach", "get_context"}
LiveWriteFns == {"add", "update", "set", "delete"}
CallsTo(calls, fns) == {i \in 1..Len(calls) : calls[i][1] \in fns}

(***************************************************************************)
(* set_prop(name, value, flags).  ok is the answer of the platform to the  *)
(* one write call.                                                         *)
(***************************************************************************)
\* mutant: every write goes through property_service
set_prop_write_mediated(lv, pi, name, value, flags, ok) ==
    LET w == system_property_set(lv, name, value, ok)
    IN  [ret |-> w.ret, live |-> w.live,
         calls |-> <<Call("set", name, value, Status(w.ret))>>]

\* the write call: update or create, directly or through property_service
set_prop_write(lv, pi, name, value, flags, ok) ==
    LET w  == IF pi
              THEN IF isSkipSvc(flags)
                   THEN system_property_update(lv, name, value, ok)
                   ELSE system_property_set(lv, name, value, ok)
              ELSE IF isSkipSvc(flags)
                   THEN system_property_add(lv, name, value, ok)
                   ELSE system_property_set(lv, name, value, ok)
        fn == IF isSkipSvc(flags) THEN (IF pi THEN "update" ELSE "add") ELSE "set"
    IN  [ret |-> w.ret, live |-> w.live,
         calls |-> <<Call(fn, name, value, Status(w.ret))>>]

FindCall(lv, name) ==
    Call("find", name, "", IF system_property_find(lv, name) THEN "found" ELSE "null")

\* mutant: an existing read-only property is not deleted before the write
set_prop_no_ro_delete(lv, name, value, flags, ok) ==
    IF ~check_legal_property_name(name)
    THEN [ret |-> 1, live |-> lv, calls |-> <<>>]
    ELSE
    LET pi == system_property_find(lv, name)
        w  == set_prop_write(lv, pi, name, value, flags, ok)
    IN  [ret |-> w.ret, live |-> w.live, calls |-> <<FindCall(lv, name)>> \o w.calls]

\* mutant: the status of the write call is not returned
set_prop_ignore_status(lv, name, value, flags, ok) ==
    IF ~check_legal_property_name(name)
    THEN [ret |-> 1, live |-> lv, calls |-> <<>>]
    ELSE
    LET found == system_property_find(lv, name)
        ro == found /\ str_starts(name, RoPrefix)
        d  == IF ro THEN system_property_delete(lv, name, FALSE)
                    ELSE [ret |-> 0, live |-> lv]
        c2 == IF ro THEN <<Call("delete", name, "noprune", Status(d.ret))>> ELSE <<>>
        pi == found /\ ~ro
        w  == set_prop_write(d.live, pi, name, value, flags, ok)
    IN  [ret |-> 0, live |-> w.live, calls |-> <<FindCall(lv, name)>> \o c2 \o w.calls]

\* mutant: the name is not validated
set_prop_unchecked(lv, name, value, flags, ok) ==
    LET found == system_property_find(lv, name)
        ro == found /\ str_starts(name, RoPrefix)
        d  == IF ro THEN system_property_delete(lv, name, FALSE)
                    ELSE [ret |-> 0, live |-> lv]
        c2 == IF ro THEN <<Call("delete", name, "noprune", Status(d.ret))>> ELSE <<>>
        pi == found /\ ~ro
        w  == set_prop_write(d.live, pi, name, value, flags, ok)
    IN  [ret |-> w.ret, live |-> w.live, calls |-> <<FindCall(lv, name)>> \o c2 \o w.calls]

\* mutant: pi still points at the deleted read-only entry when the write is chosen
set_prop_stale_pi(lv, name, value, flags, ok) ==
    IF ~check_legal_property_name(name)
    THEN [ret |-> 1, live |-> lv, calls |-> <<>>]
    ELSE
    LET found == system_property_find(lv, name)
        ro == found /\ str_starts(name, RoPrefix)
        d  == IF ro THEN system_property_delete(lv, name, FALSE)
                    ELSE [ret |-> 0, live |-> lv]
        c2 == IF ro THEN <<Call("delete", name, "noprune", Status(d.ret))>> ELSE <<>>
        w  == set_prop_write(d.live, found, name, value, flags, ok)
    IN  [ret |-> w.ret, live |-> w.live, calls |-> <<FindCall(lv, name)>> \o c2 \o w.calls]

set_prop(lv, name, value, flags, ok) ==
    IF ~check_legal_property_name(name)
    THEN [ret |-> 1, live |-> lv, calls |-> <<>>]
    ELSE
    LET found == system_property_find(lv, name)
        \* an existing read-only property is deleted first, without pruning
        ro == found /\ str_starts(name, RoPrefix)
        d  == IF ro THEN system_property_delete(lv, name, FALSE)
                    ELSE [ret |-> 0, live |-> lv]
        c2 == IF ro THEN <<Call("delete", name, "noprune", Status(d.ret))>> ELSE <<>>
        pi == found /\ ~ro
        w  == set_prop_write(d.live, pi, name, value, flags, ok)
    IN  [ret |-> w.ret, live |-> w.live, calls |-> <<FindCall(lv, name)>> \o c2 \o w.calls]

(***************************************************************************)
(* get_prop(name, flags)                                                   *)
(***************************************************************************)
\* mutant: with use-persisted set the persisted record is read whatever the live value
get_prop_persist_first(lv, ps, name, flags) ==
    IF ~check_legal_property_name(name) THEN [val |-> "", calls |-> <<>>]
    ELSE IF isContext(flags)
    THEN LET ctx == system_property_get_context(name)
             val == IF ctx = Absent THEN "" ELSE ctx
         IN  [val |-> val,
              calls |-> <<Call("get_context", name, "", ctx)>>]
    ELSE IF ~system_property_find(lv, name)
    THEN [val |-> "", calls |-> <<Call("find", name, "", "null")>>]
    ELSE LET val1 == read_prop_with_cb(lv, name)
             c1 == <<Call("find", name, "", "found"), Call("read", name, "", val1)>>
             fallback == isPersist(flags) /\ str_starts(name, PersistPrefix)
             val2 == IF fallback THEN persist_getprop(ps, name) ELSE val1
             c2 == IF fallback THEN <<Call("persist_getprop", name, "", val2)>> ELSE <<>>
         IN  [val |-> val2, calls |-> c1 \o c2]

\* mutant: want-context is looked at only when use-persisted is unset
get_prop_persist_over_context(lv, ps, name, flags) ==
    IF ~check_legal_property_name(name) THEN [val |-> "", calls |-> <<>>]
    ELSE IF isContext(flags) /\ ~isPersist(flags)
    THEN LET ctx == system_property_get_context(name)
             val == IF ctx = Absent THEN "" ELSE ctx
         IN  [val |-> val,
              calls |-> <<Call("get_context", name, "", ctx)>>]
    ELSE IF ~system_property_find(lv, name)
    THEN [val |-> "", calls |-> <<Call("find", name, "", "null")>>]
    ELSE LET val1 == read_prop_with_cb(lv, name)
             c1 == <<Call("find", name, "", "found"), Call("read", name, "", val1)>>
             fallback == val1 = "" /\ isPersist(flags) /\ str_starts(name, PersistPrefix)
             val2 == IF fallback THEN persist_getprop(ps, name) ELSE val1
             c2 == IF fallback THEN <<Call("persist_getprop", name, "", val2)>> ELSE <<>>
         IN  [val |-> val2, calls |-> c1 \o c2]

\* mutant: an empty answer of the persisted store is asked for a second time
get_prop_retry_persisted(lv, ps, name, flags) ==
    IF ~check_legal_property_name(name) THEN [val |-> "", calls |-> <<>>]
    ELSE IF isContext(flags)
    THEN LET ctx == system_property_get_context(name)
             val == IF ctx = Absent THEN "" ELSE ctx
         IN  [val |-> val,
              calls |-> <<Call("get_context", name, "", ctx)>>]
    ELSE IF ~system_property_find(lv, name)
    THEN [val |-> "", calls |-> <<Call("find", name, "", "null")>>]
    ELSE LET val1 == read_prop_with_cb(lv, name)
             c1 == <<Call("find", name, "", "found"), Call("read", name, "", val1)>>
             fallback == val1 = "" /\ isPersist(flags) /\ str_starts(name, PersistPrefix)
             val2 == IF fallback THEN persist_getprop(ps, name) ELSE val1
             c2 == IF fallback THEN <<Call("persist_getprop", name, "", val2)>> ELSE <<>>
             c3 == IF fallback /\ val2 = "" THEN c2 ELSE <<>>
         IN  [val |-> val2, calls |-> c1 \o c2 \o c3]

get_prop(lv, ps, name, flags) ==
    IF ~check_legal_property_name(name) THEN [val |-> "", calls |-> <<>>]
    ELSE IF isContext(flags)
    THEN LET ctx == system_property_get_context(name)
             val == IF ctx = Absent THEN "" ELSE ctx
         IN  [val |-> val,
              calls |-> <<Call("get_context", name, "", ctx)>>]
    ELSE IF ~system_property_find(lv, name)
    THEN [val |-> "", calls |-> <<Call("find", name, "", "null")>>]
    ELSE LET val1 == read_prop_with_cb(lv, name)
             c1 == <<Call("find", name, "", "found"), Call("read", name, "", val1)>>
             fallback == val1 = "" /\ isPersist(flags) /\ str_starts(name, PersistPrefix)
             val2 == IF fallback THEN persist_getprop(ps, name) ELSE val1
             c2 == IF fallback THEN <<Call("persist_getprop", name, "", val2)>> ELSE <<>>
         IN  [val |-> val2, calls |-> c1 \o c2]

(***************************************************************************)
(* print_props(flags), order and porder being the orders in which the live *)
(* and the persisted store visit their entries.  The prop_list is a map: a *)
(* set of (key, value) pairs that prop_collector fills, one exec per       *)
(* visited entry.                                                          *)
(***************************************************************************)
\* prop_collector::exec: insert, which keeps the pair of a key already there
Collect(list, name, value) ==
    IF \E e \in list : e[1] = name THEN list ELSE list \cup {<<name, value>>}

\* the orders in which a store may hand these entries to a visitor: the
\* adapters do not fix the order, every arrangement of the entries is possible
VisitOrders(entries) ==
    {o \in [1..Cardinality(entries) -> entries] :
        \A i, j \in DOMAIN o : o[i] = o[j] => i = j}

\* the collector run over the entries of store st, visited in this order
RECURSIVE CollectAll(_, _, _, _)
CollectAll(list, st, order, i) ==
    IF i > Len(order) THEN list
    ELSE CollectAll(Collect(list, order[i], st[order[i]]), st, order, i + 1)

Keys(list) == {e[1] : e \in list}
ValueOf(list, key) == (CHOOSE e \in list : e[1] = key)[2]

\* the loop over the map, in key order
print_loop(list, flags) ==
    LET keys == SelectSeq(NameOrder, LAMBDA n : n \in Keys(list))
        Ctx(n) == system_property_get_context(n)
    IN  [out |-> [i \in 1..Len(keys) |->
                    <<keys[i],
                      IF isContext(flags)
                      THEN (IF Ctx(keys[i]) = Absent THEN "" ELSE Ctx(keys[i]))
                      ELSE ValueOf(list, keys[i])>>],
         calls |-> IF isContext(flags)
                   THEN [i \in 1..Len(keys) |-> Call("get_context", keys[i], "", Ctx(keys[i]))]
                   ELSE <<>>]

\* system_property_foreach calls its visitor, read_prop_with_cb, once for every
\* live entry: the reads it issues, in the order of the visit
ReadCalls(lv, order) ==
    [i \in 1..Len(order) |-> Call("read", order[i], "", read_prop_with_cb(lv, order[i]))]

\* mutant: the persisted entries are collected before the live ones
print_props_persist_first(lv, ps, flags, order, porder) ==
    LET list0 == IF isPersist(flags)
                 THEN CollectAll({}, ps, porder, 1)
                 ELSE {}
        c2 == IF isPersist(flags) THEN <<Call("persist_getprops", <<>>, "", "")>> ELSE <<>>
        list == CollectAll(list0, lv, order, 1)
        c1 == <<Call("foreach", <<>>, "", "")>> \o ReadCalls(lv, order)
        p == print_loop(list, flags)
    IN  [list |-> list, out |-> p.out, calls |-> c2 \o c1 \o p.calls]

print_props(lv, ps, flags, order, porder) ==
    LET list1 == CollectAll({}, lv, order, 1)
        c1 == <<Call("foreach", <<>>, "", "")>> \o ReadCalls(lv, order)
        list == IF isPersist(flags)
                THEN CollectAll(list1, ps, porder, 1)
                ELSE list1
        c2 == IF isPersist(flags) THEN <<Call("persist_getprops", <<>>, "", "")>> ELSE <<>>
        p == print_loop(list, flags)
    IN  [list |-> list, out |-> p.out, calls |-> c1 \o c2 \o p.calls]

(***************************************************************************)
(* delete_prop(name, flags)                                                *)
(***************************************************************************)
\* mutant: the persist flag alone sends the deletion to the persisted store
delete_prop_no_prefix(lv, ps, name, flags) ==
    IF ~check_legal_property_name(name)
    THEN [ret |-> 1, live |-> lv, pers |-> ps, calls |-> <<>>]
    ELSE
    LET d == system_property_delete(lv, name, TRUE)
        c1 == <<Call("delete", name, "prune", Status(d.ret))>>
        both == isPersist(flags)
        p == IF both THEN persist_deleteprop(ps, name) ELSE [ok |-> FALSE, pers |-> ps]
        c2 == IF both
              THEN <<Call("persist_deleteprop", name, "", IF p.ok THEN "true" ELSE "false")>>
              ELSE <<>>
    IN  [ret |-> IF both /\ p.ok THEN 0 ELSE d.ret,
         live |-> d.live, pers |-> p.pers, calls |-> c1 \o c2]

\* mutant: the live entry is left alone when the persisted store is asked for
delete_prop_persist_only(lv, ps, name, flags) ==
    IF ~check_legal_property_name(name)
    THEN [ret |-> 1, live |-> lv, pers |-> ps, calls |-> <<>>]
    ELSE IF isPersist(flags) /\ str_starts(name, PersistPrefix)
    THEN LET p == persist_deleteprop(ps, name)
         IN  [ret |-> IF p.ok THEN 0 ELSE -1, live |-> lv, pers |-> p.pers,
              calls |-> <<Call("persist_deleteprop", name, "",
                               IF p.ok THEN "true" ELSE "false")>>]
    ELSE LET d == system_property_delete(lv, name, TRUE)
         IN  [ret |-> d.ret, live |-> d.live, pers |-> ps,
              calls |-> <<Call("delete", name, "prune", Status(d.ret))>>]

\* mutant: a persist. name is deleted from the persisted store whatever the flags
delete_prop_ignore_flag(lv, ps, name, flags) ==
    IF ~check_legal_property_name(name)
    THEN [ret |-> 1, live |-> lv, pers |-> ps, calls |-> <<>>]
    ELSE
    LET d == system_property_delete(lv, name, TRUE)
        c1 == <<Call("delete", name, "prune", Status(d.ret))>>
        both == str_starts(name, PersistPrefix)
        p == IF both THEN persist_deleteprop(ps, name) ELSE [ok |-> FALSE, pers |-> ps]
        c2 == IF both
              THEN <<Call("persist_deleteprop", name, "", IF p.ok THEN "true" ELSE "false")>>
              ELSE <<>>
    IN  [ret |-> IF both /\ p.ok THEN 0 ELSE d.ret,
         live |-> d.live, pers |-> p.pers, calls |-> c1 \o c2]

delete_prop(lv, ps, name, flags) ==
    IF ~check_legal_property_name(name)
    THEN [ret |-> 1, live |-> lv, pers |-> ps, calls |-> <<>>]
    ELSE
    LET d == system_property_delete(lv, name, TRUE)
        c1 == <<Call("delete", name, "prune", Status(d.ret))>>
        both == isPersist(flags) /\ str_starts(name, PersistPrefix)
        p == IF both THEN persist_deleteprop(ps, name) ELSE [ok |-> FALSE, pers |-> ps]
        c2 == IF both
              THEN <<Call("persist_deleteprop", name, "", IF p.ok THEN "true" ELSE "false")>>
              ELSE <<>>
    IN  [ret |-> IF both /\ p.ok THEN 0 ELSE d.ret,
         live |-> d.live, pers |-> p.pers, calls |-> c1 \o c2]

(***************************************************************************)
(* load_file(filename, flags).  file is what parse_prop_file reads: the    *)
(* (key, value) pairs in file order; oks[i] is the answer of the platform  *)
(* to the write of line i.  The callback returns true after every line.    *)
(***************************************************************************)
RECURSIVE LoadFrom(_, _, _, _, _, _, _)
LoadFrom(lv, file, flags, oks, i, rets, calls) ==
    IF i > Len(file) THEN [live |-> lv, rets |-> rets, calls |-> calls]
    ELSE LET r == set_prop(lv, file[i][1], file[i][2], flags, oks[i])
         IN  LoadFrom(r.live, file, flags, oks, i + 1,
                      Append(rets, r.ret), calls \o r.calls)

load_file(lv, file, flags, oks) == LoadFrom(lv, file, flags, oks, 1, <<>>, <<>>)

(***************************************************************************)
(* State                                                                   *)
(***************************************************************************)
VARIABLES
    live,       \* the live store: name -> value or Absent
    pers,       \* the persisted store: name -> value or Absent
    initCount,  \* how often the Initialize constructor has run in this process
    last,       \* the entry point that ran last, its arguments, results and calls
    input,      \* the string handed to check_legal_property_name
    output      \* its answer: "none" before the call, then "legal" or "illegal"

vars == <<live, pers, initCount, last, input, output>>

\* no entry point has run, or its caller has taken the result
Idle ==
    [entry |-> "none", op |-> "none", name |-> <<>>, value |-> "", flags |-> NoFlags,
     file |-> <<>>, old |-> Absent, ok |-> TRUE, val |-> "", ret |-> 0, rets |-> <<>>,
     list |-> {}, out |-> <<>>, calls |-> <<>>]

Stores == {st \in [Names -> Values \cup {Absent}] : \A n \in IllegalNames : st[n] = Absent}
PersistedStores == {st \in Stores : \A n \in Names : st[n] # Absent => str_starts(n, PersistPrefix)}

\* the lines of a property file, and the files of at most n lines
FilePairs == {<<nPlain, "x">>, <<nBadRo, "x">>, <<nRo, "xx">>}
RECURSIVE FilesUpTo(_)
FilesUpTo(n) ==
    IF n = 0 THEN {<<>>}
    ELSE LET shorter == FilesUpTo(n - 1)
         IN  shorter \cup {Append(f, l) : f \in {g \in shorter : Len(g) = n - 1},
                                          l \in FilePairs}
Files == FilesUpTo(MaxFileLen)
\* the files of at most one line
ShortFiles == {f \in Files : Len(f) <= 1}

Init ==
    /\ live \in Stores
    /\ pers \in PersistedStores
    /\ initCount = 0
    /\ last = Idle
    /\ input = <<>>
    /\ output = "none"

(***************************************************************************)
(* InitOnce: constructs an Initialize object, whose constructor resolves   *)
(* the platform functions and calls __system_properties_init.  n is the    *)
(* number of constructor runs so far.                                      *)
(***************************************************************************)
InitOnce(n) == n + 1

InitCall == <<Call("init", <<>>, "", "")>>

\* an entry point may run when the process is idle and has calls left
CanEnter == last = Idle /\ initCount < MaxCalls

(***************************************************************************)
(* High-level APIs                                                         *)
(***************************************************************************)
\* mutant: the get API goes to the stores without calling InitOnce
GetPropApiNoInit ==
    /\ CanEnter
    /\ \E name \in Names, persist \in BOOLEAN :
        LET flags == IF persist THEN setPersist(NoFlags) ELSE NoFlags
            r == get_prop(live, pers, name, flags)
        IN  /\ initCount' = initCount
            /\ last' = [Idle EXCEPT !.entry = "get_prop", !.op = "get", !.name = name,
                                    !.flags = flags, !.val = r.val,
                                    !.calls = r.calls]
            /\ UNCHANGED <<live, pers, input, output>>

GetPropApi ==
    /\ CanEnter
    /\ \E name \in Names, persist \in BOOLEAN :
        LET flags == IF persist THEN setPersist(NoFlags) ELSE NoFlags
            r == get_prop(live, pers, name, flags)
        IN  /\ initCount' = InitOnce(initCount)
            /\ last' = [Idle EXCEPT !.entry = "get_prop", !.op = "get", !.name = name,
                                    !.flags = flags, !.val = r.val,
                                    !.calls = InitCall \o r.calls]
            /\ UNCHANGED <<live, pers, input, output>>

DeletePropApi ==
    /\ CanEnter
    /\ \E name \in Names, persist \in BOOLEAN :
        LET flags == IF persist THEN setPersist(NoFlags) ELSE NoFlags
            r == delete_prop(live, pers, name, flags)
        IN  /\ initCount' = InitOnce(initCount)
            /\ live' = r.live
            /\ pers' = r.pers
            /\ last' = [Idle EXCEPT !.entry = "delete_prop", !.op = "delete", !.name = name,
                                    !.flags = flags, !.ret = r.ret,
                                    !.calls = InitCall \o r.calls]
            /\ UNCHANGED <<input, output>>

SetPropApi ==
    /\ CanEnter
    /\ \E name \in Names, value \in Values, skip_svc \in BOOLEAN, ok \in BOOLEAN :
        LET flags == IF skip_svc THEN setSkipSvc(NoFlags) ELSE NoFlags
            r == set_prop(live, name, value, flags, ok)
        IN  /\ initCount' = InitOnce(initCount)
            /\ live' = r.live
            /\ last' = [Idle EXCEPT !.entry = "set_prop", !.op = "set", !.name = name,
                                    !.value = value, !.flags = flags, !.ret = r.ret,
                                    !.old = live[name], !.ok = ok,
                                    !.calls = InitCall \o r.calls]
            /\ UNCHANGED <<pers, input, output>>

LoadPropFileApi(files) ==
    /\ CanEnter
    /\ \E file \in files, skip_svc \in BOOLEAN :
      \E oks \in [1..Len(file) -> BOOLEAN] :
        LET flags == IF skip_svc THEN setSkipSvc(NoFlags) ELSE NoFlags
            r == load_file(live, file, flags, oks)
        IN  /\ initCount' = InitOnce(initCount)
            /\ live' = r.live
            /\ last' = [Idle EXCEPT !.entry = "load_prop_file", !.op = "load", !.file = file,
                                    !.flags = flags, !.rets = r.rets,
                                    !.calls = InitCall \o r.calls]
            /\ UNCHANGED <<pers, input, output>>

(***************************************************************************)
(* resetprop_main, one action per branch taken after the flags are parsed. *)
(* last.ret is the exit code.                                              *)
(***************************************************************************)
MainDelete ==
    /\ CanEnter
    /\ \E prop_to_rm \in Names, flags \in AllFlags :
        LET r == delete_prop(live, pers, prop_to_rm, flags)
        IN  /\ initCount' = InitOnce(initCount)
            /\ live' = r.live
            /\ pers' = r.pers
            /\ last' = [Idle EXCEPT !.entry = "main", !.op = "delete", !.name = prop_to_rm,
                                    !.flags = flags, !.ret = r.ret,
                                    !.calls = InitCall \o r.calls]
            /\ UNCHANGED <<input, output>>

MainFile(files) ==
    /\ CanEnter
    /\ \E prop_file \in files, flags \in AllFlags :
      \E oks \in [1..Len(prop_file) -> BOOLEAN] :
        LET r == load_file(live, prop_file, flags, oks)
        IN  /\ initCount' = InitOnce(initCount)
            /\ live' = r.live
            /\ last' = [Idle EXCEPT !.entry = "main", !.op = "load", !.file = prop_file,
                                    !.flags = flags, !.rets = r.rets, !.ret = 0,
                                    !.calls = InitCall \o r.calls]
            /\ UNCHANGED <<pers, input, output>>

MainPrint ==
    /\ CanEnter
    /\ \E flags \in AllFlags, order \in VisitOrders(system_property_foreach(live)),
          porder \in VisitOrders(persist_getprops(pers)) :
        LET r == print_props(live, pers, flags, order, porder)
        IN  /\ initCount' = InitOnce(initCount)
            /\ last' = [Idle EXCEPT !.entry = "main", !.op = "print", !.flags = flags,
                                    !.list = r.list, !.out = r.out, !.ret = 0,
                                    !.calls = InitCall \o r.calls]
            /\ UNCHANGED <<live, pers, input, output>>

MainGet ==
    /\ CanEnter
    /\ \E name \in Names, flags \in AllFlags :
        LET r == get_prop(live, pers, name, flags)
        IN  /\ initCount' = InitOnce(initCount)
            /\ last' = [Idle EXCEPT !.entry = "main", !.op = "get", !.name = name,
                                    !.flags = flags, !.val = r.val,
                                    !.ret = IF r.val = "" THEN 1 ELSE 0,
                                    !.out = IF r.val = "" THEN <<>> ELSE <<r.val>>,
                                    !.calls = InitCall \o r.calls]
            /\ UNCHANGED <<live, pers, input, output>>

MainSet ==
    /\ CanEnter
    /\ \E name \in Names, value \in Values, flags \in AllFlags, ok \in BOOLEAN :
        LET r == set_prop(live, name, value, flags, ok)
        IN  /\ initCount' = InitOnce(initCount)
            /\ live' = r.live
            /\ last' = [Idle EXCEPT !.entry = "main", !.op = "set", !.name = name,
                                    !.value = value, !.flags = flags, !.ret = r.ret,
                                    !.old = live[name], !.ok = ok,
                                    !.calls = InitCall \o r.calls]
            /\ UNCHANGED <<pers, input, output>>

\* the option parsing ends in usage() (an option without its one argument,
\* an unknown -- option, -h or an unknown flag letter): the help text is
\* printed and the process exits with 1 before InitOnce is reached; flags are
\* the flags parsed up to there
MainUsageParse ==
    /\ last = Idle
    /\ \E flags \in AllFlags :
        /\ last' = [Idle EXCEPT !.entry = "main", !.op = "usage", !.flags = flags,
                                !.ret = 1]
        /\ UNCHANGED <<live, pers, initCount, input, output>>

\* three or more positional arguments: usage() prints the help text and
\* exits with 1, after InitOnce has run; no store is called
MainUsage ==
    /\ CanEnter
    /\ \E flags \in AllFlags :
        /\ initCount' = InitOnce(initCount)
        /\ last' = [Idle EXCEPT !.entry = "main", !.op = "usage", !.flags = flags,
                                !.ret = 1, !.calls = InitCall]
        /\ UNCHANGED <<live, pers, input, output>>

\* the entry point returns: its caller takes the result; usage() has ended
\* the process and does not return
Return ==
    /\ last # Idle
    /\ last.op # "usage"
    /\ last' = Idle
    /\ UNCHANGED <<live, pers, initCount, input, output>>

Next ==
    \/ GetPropApi
    \/ DeletePropApi
    \/ SetPropApi
    \/ LoadPropFileApi(ShortFiles)
    \/ MainDelete
    \/ MainFile(ShortFiles)
    \/ MainPrint
    \/ MainGet
    \/ MainSet
    \/ MainUsageParse
    \/ MainUsage
    \/ Return

Spec == Init /\ [][Next]_vars

(***************************************************************************)
(* The name validator on its own: every string over Alphabet of at most    *)
(* MaxLen characters is handed to check_legal_property_name.               *)
(***************************************************************************)
InitName ==
    /\ live = [n \in Names |-> Absent]
    /\ pers = [n \in Names |-> Absent]
    /\ initCount = 0
    /\ last = Idle
    /\ input \in StringsUpTo(MaxLen)
    /\ output = "none"

CheckName ==
    /\ output = "none"
    /\ output' = IF check_legal_property_name(input) THEN "legal" ELSE "illegal"
    /\ UNCHANGED <<live, pers, initCount, last, input>>

NextName == CheckName

SpecName == InitName /\ [][NextName]_vars

(***************************************************************************)
(* The bulk loader on its own: files of up to MaxFileLen lines, loaded     *)
(* into live stores whose entries hold "x".                                *)
(***************************************************************************)
InitLoad ==
    /\ live \in {st \in Stores : \A n \in Names : st[n] \in {Absent, "x"}}
    /\ pers \in {st \in PersistedStores : \A n \in Names : st[n] \in {Absent, "x"}}
    /\ initCount = 0
    /\ last = Idle
    /\ input = <<>>
    /\ output = "none"

NextLoad ==
    \/ LoadPropFileApi(Files)
    \/ MainFile(Files)
    \/ Return

SpecLoad == InitLoad /\ [][NextLoad]_vars

\* the letters and digits that occur in the model, and the five other characters
GrammarChars == {"a", "b", "e", "i", "o", "p", "r", "s", "t", "z", "A", "Z", "0", "9",
                 ".", "-", "@", ":", "_"}
Grammar(s) ==
    /\ Len(s) >= 1
    /\ s[1] # "."
    /\ s[Len(s)] # "."
    /\ \A i \in 1..Len(s) : s[i] \in GrammarChars
    /\ \A i \in 1..(Len(s) - 1) : ~(s[i] = "." /\ s[i + 1] = ".")

(***************************************************************************)
(* C8  Name grammar.  check_legal_property_name accepts a string exactly   *)
(* when it is non-empty, neither starts nor ends with a dot, holds only    *)
(* letters, digits and the characters . - @ : _ and has no two adjacent    *)
(* dots.                                                                   *)
(***************************************************************************)
C8_NameGrammar ==
    output # "none" => (output = "legal" <=> Grammar(input))

\* "a..a" was checked and rejected: only the adjacent-dots rule rejects it
C8_Witness ==
    /\ input = <<"a", ".", ".", "a">>
    /\ output = "illegal"

(***************************************************************************)
(* Claims about the property store.  last holds the entry point that has   *)
(* just run; live and pers are the stores it left.                         *)
(***************************************************************************)
LastIs(op) == last.op = op /\ check_legal_property_name(last.name)
PersistFlagOnly(flags) == IF isPersist(flags) THEN setPersist(NoFlags) ELSE NoFlags

(***************************************************************************)
(* C1  Persisted fallback.  A get of the value (want-context unset) of a   *)
(* legal persist. name that has a persisted record and no live entry       *)
(* returns the persisted value when use-persisted is set, and the empty    *)
(* string when it is unset.                                                *)
(***************************************************************************)
C1_PersistedFallback ==
    ( /\ LastIs("get")
      /\ ~isContext(last.flags)
      /\ str_starts(last.name, PersistPrefix)
      /\ live[last.name] = Absent
      /\ pers[last.name] # Absent )
    => last.val = (IF isPersist(last.flags) THEN pers[last.name] ELSE "")

(***************************************************************************)
(* C2  Initialization runs once.  However many entry points have run, the  *)
(* Initialize constructor has run at most once in the process.             *)
(***************************************************************************)
C2_InitOnce == initCount <= 1

(***************************************************************************)
(* C3  Round trip, as claimed.  After set(name, value) on a legal name     *)
(* with skip-service unset, get(name) returns value.                       *)
(***************************************************************************)
C3_RoundTrip ==
    (LastIs("set") /\ ~isSkipSvc(last.flags))
    => get_prop(live, pers, last.name, NoFlags).val = last.value

(***************************************************************************)
(* C3  Round trip, amended.  After set(name, value) on a legal name with   *)
(* skip-service unset has returned 0, get(name) returns value.             *)
(***************************************************************************)
C3_RoundTripOnSuccess ==
    (LastIs("set") /\ ~isSkipSvc(last.flags) /\ last.ret = 0)
    => get_prop(live, pers, last.name, NoFlags).val = last.value

\* a mediated set has replaced "x" by "xx"
C3_Witness ==
    /\ LastIs("set")
    /\ ~isSkipSvc(last.flags)
    /\ last.ret = 0
    /\ last.old = "x"
    /\ last.value = "xx"
    /\ get_prop(live, pers, last.name, NoFlags).val = "xx"

\* set on a legal ro. name that has a live entry, with a value longer than the stored one
RoReplace ==
    /\ LastIs("set")
    /\ str_starts(last.name, RoPrefix)
    /\ last.old # Absent
    /\ Len(last.value) > Len(last.old)

(***************************************************************************)
(* C4  Read-only replace, as claimed.  A set on a legal ro. name that has  *)
(* a live entry, with a longer value, succeeds and get then returns the    *)
(* longer value, with skip-service set or unset.                           *)
(***************************************************************************)
C4_RoReplace ==
    RoReplace => /\ last.ret = 0
                 /\ get_prop(live, pers, last.name, NoFlags).val = last.value

(***************************************************************************)
(* C4  Read-only replace, amended.  Such a set succeeds whenever the live  *)
(* store accepts the write that recreates the entry, and after a           *)
(* successful set get returns the longer value, with skip-service set or   *)
(* unset.                                                                  *)
(***************************************************************************)
C4_RoReplaceWhenAccepted ==
    RoReplace => /\ last.ok => last.ret = 0
                 /\ last.ret = 0 =>
                        get_prop(live, pers, last.name, NoFlags).val = last.value

\* ro.a held "x" and was recreated with "xx" by a direct add
C4_Witness ==
    /\ RoReplace
    /\ isSkipSvc(last.flags)
    /\ last.old = "x"
    /\ last.value = "xx"
    /\ last.ret = 0
    /\ live[last.name] = "xx"

\* the results of the calls to fn that last.calls logs
ResultsOf(fn) == {last.calls[i][4] : i \in CallsTo(last.calls, {fn})}

(***************************************************************************)
(* C5  Status of delete.  With use-persisted set on a legal persist. name  *)
(* delete calls both stores and returns 0 whenever the persisted deletion  *)
(* succeeds; otherwise it returns the status of the live deletion and      *)
(* issues no call to the persisted store.                                  *)
(***************************************************************************)
C5_DeleteStatus ==
    LastIs("delete") =>
        /\ Cardinality(CallsTo(last.calls, {"delete"})) = 1
        /\ IF isPersist(last.flags) /\ str_starts(last.name, PersistPrefix)
           THEN /\ Cardinality(CallsTo(last.calls, {"persist_deleteprop"})) = 1
                /\ "true" \in ResultsOf("persist_deleteprop") => last.ret = 0
           ELSE /\ CallsTo(last.calls, PersistFns) = {}
                /\ ResultsOf("delete") = {Status(last.ret)}

\* the live deletion failed, the persisted one succeeded, delete returned 0
C5_Witness ==
    /\ LastIs("delete")
    /\ ResultsOf("delete") = {"-1"}
    /\ ResultsOf("persist_deleteprop") = {"true"}
    /\ last.ret = 0

(***************************************************************************)
(* C6  Delete then get.  After delete(name) on a legal name, get(name)     *)
(* with the same use-persisted setting returns the empty string.           *)
(***************************************************************************)
C6_DeleteThenGet ==
    LastIs("delete") =>
        get_prop(live, pers, last.name, PersistFlagOnly(last.flags)).val = ""

\* the name was in both stores, and both deletions succeeded
C6_Witness ==
    /\ LastIs("delete")
    /\ ResultsOf("delete") = {"0"}
    /\ ResultsOf("persist_deleteprop") = {"true"}
    /\ get_prop(live, pers, last.name, PersistFlagOnly(last.flags)).val = ""

StoreCalls == CallsTo(last.calls, LiveFns \cup PersistFns)

(***************************************************************************)
(* C7  Validator gate.  get, set and delete go on to the stores exactly    *)
(* for the names of the grammar; for any other name they return their      *)
(* failure result (get: empty, set: 1, delete: 1) and call neither store,  *)
(* whatever the flags.                                                     *)
(***************************************************************************)
C7_ValidatorGate ==
    last.op \in {"get", "set", "delete"} =>
        /\ Grammar(last.name) <=> StoreCalls # {}
        /\ ~Grammar(last.name) =>
              CASE last.op = "get" -> last.val = ""
                [] last.op = "set" -> last.ret = 1
                [] last.op = "delete" -> last.ret = 1

\* "persist." was refused by delete with every flag set
C7_Witness ==
    /\ last.op = "delete"
    /\ last.name = nBadPersist
    /\ last.flags = 7
    /\ last.ret = 1
    /\ StoreCalls = {}

LiveEntries == {<<n, live[n]>> : n \in {m \in Names : live[m] # Absent}}
PersistedOnly == {<<n, pers[n]>> : n \in {m \in Names : pers[m] # Absent /\ live[m] = Absent}}

(***************************************************************************)
(* C10  Enumeration.  With use-persisted set the list holds every live     *)
(* entry with its live value and every persisted entry whose name has no   *)
(* live entry, each name once; with use-persisted unset it holds the live  *)
(* entries only.  Without want-context the printed lines are the list.     *)
(***************************************************************************)
C10_Enumerate ==
    last.op = "print" =>
        /\ last.list = IF isPersist(last.flags)
                       THEN LiveEntries \cup PersistedOnly
                       ELSE LiveEntries
        /\ Cardinality(Keys(last.list)) = Cardinality(last.list)
        /\ ~isContext(last.flags) => {last.out[i] : i \in 1..Len(last.out)} = last.list

\* persist.a is in both stores with different values; the live value is listed
C10_Witness ==
    /\ last.op = "print"
    /\ isPersist(last.flags)
    /\ live[nPersist] = "x"
    /\ pers[nPersist] = "xx"
    /\ live[nPlain] = "xx"
    /\ last.list = {<<nPlain, "xx">>, <<nPersist, "x">>}

WriteFns == {"add", "update", "set"}
\* the (name, value) pairs of the write calls, in call order
Writes(calls) ==
    LET w == SelectSeq(calls, LAMBDA c : c[1] \in WriteFns)
    IN  [i \in 1..Len(w) |-> <<w[i][2], w[i][3]>>]
LegalLines(file) == SelectSeq(file, LAMBDA l : Grammar(l[1]))
\* the value of the last successful write to name n, Absent when there is none
RECURSIVE LastWritten(_, _, _)
LastWritten(calls, n, i) ==
    IF i = 0 THEN Absent
    ELSE IF calls[i][1] \in WriteFns /\ calls[i][2] = n /\ calls[i][4] = "0"
         THEN calls[i][3]
         ELSE LastWritten(calls, n, i - 1)

(***************************************************************************)
(* C9  Bulk load.  load_file calls set for every line in file order: a     *)
(* line with an illegal name is rejected with 1, every other line issues   *)
(* its write, also after a failed line, and the writes that succeeded      *)
(* stay applied.                                                           *)
(***************************************************************************)
C9_BulkLoad ==
    last.op = "load" =>
        /\ Len(last.rets) = Len(last.file)
        /\ \A i \in 1..Len(last.file) : last.rets[i] = 1 <=> ~Grammar(last.file[i][1])
        /\ Writes(last.calls) = LegalLines(last.file)
        /\ \A n \in Names :
              LastWritten(last.calls, n, Len(last.calls)) # Absent =>
                  live[n] = LastWritten(last.calls, n, Len(last.calls))

\* three lines, the second with an illegal name: lines 1 and 3 are applied
C9_Witness ==
    /\ last.op = "load"
    /\ last.file = <<<<nPlain, "x">>, <<nBadRo, "x">>, <<nRo, "xx">>>>
    /\ last.rets = <<0, 1, 0>>
    /\ live[nPlain] = "x"
    /\ live[nRo] = "xx"

(***************************************************************************)
(* C11  Absent and empty.  The get API called for a legal name whose live  *)
(* entry holds the empty string gives a result that differs from the one   *)
(* it gives, with the same arguments, when the name has no live entry.     *)
(***************************************************************************)
C11_AbsentVsEmpty ==
    ( /\ last.entry = "get_prop"
      /\ LastIs("get")
      /\ live[last.name] = "" )
    => last.val # get_prop([live EXCEPT ![last.name] = Absent], pers,
                           last.name, last.flags).val

\* set(name, value) run once more on the stores the last set left, the live
\* store answering its write call with ok2
SetAgain(ok2) == set_prop(live, last.name, last.value, last.flags, ok2)

(***************************************************************************)
(* C12  Idempotence of set, as claimed.  After set(name, value) on a legal *)
(* name, a second set(name, value) leaves the live store, and so the       *)
(* result of get, as the first one left them.                              *)
(***************************************************************************)
C12_Idempotent ==
    LastIs("set") =>
        \A ok2 \in BOOLEAN :
            /\ SetAgain(ok2).live = live
            /\ get_prop(SetAgain(ok2).live, pers, last.name, NoFlags).val
                   = get_prop(live, pers, last.name, NoFlags).val

(***************************************************************************)
(* C12  Idempotence of set, amended.  When the live store gives the write  *)
(* call of the second set(name, value) the answer it gave the first, the   *)
(* second set leaves the live store, and so the result of get, as the      *)
(* first one left them, also for ro. names.                                *)
(***************************************************************************)
C12_IdempotentSameAnswer ==
    LastIs("set") =>
        /\ SetAgain(last.ok).live = live
        /\ get_prop(SetAgain(last.ok).live, pers, last.name, NoFlags).val
               = get_prop(live, pers, last.name, NoFlags).val

\* ro.a held "x" and was set to "xx" directly; a second set leaves it at "xx"
C12_Witness ==
    /\ LastIs("set")
    /\ last.name = nRo
    /\ isSkipSvc(last.flags)
    /\ last.old = "x"
    /\ last.value = "xx"
    /\ last.ok
    /\ SetAgain(last.ok).live = live
    /\ SetAgain(last.ok).calls[2][1] = "delete"

\* the adapter calls of the last entry point, after its initialization
OpCalls == Tail(last.calls)

(***************************************************************************)
(* C13  No in-place update of read-only names.  A set on a legal ro. name  *)
(* that has a live entry issues the lookup, a live delete without pruning  *)
(* and then a create (add when skip-service is set, the mediated set       *)
(* otherwise) and no update; a set on a name without the ro. prefix issues *)
(* no delete.                                                              *)
(***************************************************************************)
C13_RoNeverUpdated ==
    LastIs("set") =>
        /\ (str_starts(last.name, RoPrefix) /\ last.old # Absent) =>
              /\ Len(OpCalls) = 3
              /\ OpCalls[1][1] = "find"
              /\ OpCalls[2][1] = "delete" /\ OpCalls[2][3] = "noprune"
              /\ OpCalls[3][1] = (IF isSkipSvc(last.flags) THEN "add" ELSE "set")
              /\ CallsTo(last.calls, {"update"}) = {}
        /\ ~str_starts(last.name, RoPrefix) => CallsTo(last.calls, {"delete"}) = {}

\* ro.a held "xx": a direct set of "x" deleted the entry and added it again
C13_Witness ==
    /\ LastIs("set")
    /\ last.name = nRo
    /\ last.old = "xx"
    /\ last.value = "x"
    /\ isSkipSvc(last.flags)
    /\ OpCalls = <<Call("find", nRo, "", "found"), Call("delete", nRo, "noprune", "0"),
                   Call("add", nRo, "x", "0")>>

\* the write call that a set with these flags issues for a name whose live
\* entry was old
WritePath(name, old, flags) ==
    IF ~isSkipSvc(flags) THEN "set"
    ELSE IF old # Absent /\ ~str_starts(name, RoPrefix) THEN "update"
    ELSE "add"

(***************************************************************************)
(* C14  Write-path selection.  A set on a legal name issues exactly one    *)
(* write call, as its last call: with skip-service set an add when the     *)
(* name has no live entry or is a ro. name, an update when a live entry of *)
(* another name exists; with skip-service unset the mediated set.  The     *)
(* only other mutation is the delete without pruning of an existing ro.    *)
(* entry.  set returns the status of the write call.                       *)
(***************************************************************************)
C14_WritePath ==
    LastIs("set") =>
        LET w == last.calls[Len(last.calls)]
        IN  /\ CallsTo(last.calls, WriteFns) = {Len(last.calls)}
            /\ w = Call(WritePath(last.name, last.old, last.flags), last.name,
                        last.value, Status(last.ret))
            /\ last.ret \in {0, -1}
            /\ \A i \in CallsTo(last.calls, {"delete"}) :
                  /\ last.calls[i] = Call("delete", last.name, "noprune", "0")
                  /\ str_starts(last.name, RoPrefix) /\ last.old # Absent
            /\ Cardinality(CallsTo(last.calls, {"delete"})) <= 1

\* a held "x": a direct set of "xx" updated it in place and returned 0
C14_Witness ==
    /\ LastIs("set")
    /\ last.name = nPlain
    /\ last.old = "x"
    /\ isSkipSvc(last.flags)
    /\ OpCalls = <<Call("find", nPlain, "", "found"), Call("update", nPlain, "xx", "0")>>
    /\ last.ret = 0
    /\ live[nPlain] = "xx"

(***************************************************************************)
(* C15  Atomicity of a failed set.  When set(name, value) on a legal name  *)
(* returns a failure status, the live entry of name is what it was before  *)
(* the call.                                                               *)
(***************************************************************************)
C15_FailedSetAtomic ==
    (LastIs("set") /\ last.ret # 0) => live[last.name] = last.old

(***************************************************************************)
(* C16  Fallback only.  A get calls the persisted store only when          *)
(* want-context is unset, use-persisted is set, the name starts with       *)
(* persist. and the read of the live entry gave the empty string; a get of *)
(* the value of a name whose live entry is not empty returns the live      *)
(* value, whatever the persisted store holds.                              *)
(***************************************************************************)
C16_FallbackOnly ==
    LastIs("get") =>
        /\ CallsTo(last.calls, PersistFns) # {} =>
              /\ ~isContext(last.flags)
              /\ isPersist(last.flags)
              /\ str_starts(last.name, PersistPrefix)
              /\ ResultsOf("read") = {""}
        /\ (~isContext(last.flags) /\ live[last.name] \notin {Absent, ""}) =>
              /\ last.val = live[last.name]
              /\ CallsTo(last.calls, PersistFns) = {}

\* persist.a is "x" live and "xx" persisted: get with use-persisted set returns "x"
C16_Witness ==
    /\ LastIs("get")
    /\ last.name = nPersist
    /\ isPersist(last.flags) /\ ~isContext(last.flags)
    /\ live[nPersist] = "x"
    /\ pers[nPersist] = "xx"
    /\ last.val = "x"
    /\ CallsTo(last.calls, PersistFns) = {}

(***************************************************************************)
(* C17  Context queries.  A get with want-context set on a legal name      *)
(* returns the security context the live store has for the name, the empty *)
(* string when it has none, and its only call is that lookup: the          *)
(* persisted store is not called, also with use-persisted set on a         *)
(* persist. name.                                                          *)
(***************************************************************************)
C17_ContextOnly ==
    (LastIs("get") /\ isContext(last.flags)) =>
        LET ctx == system_property_get_context(last.name)
        IN  /\ last.val = (IF ctx = Absent THEN "" ELSE ctx)
            /\ OpCalls = <<Call("get_context", last.name, "", ctx)>>
            /\ CallsTo(last.calls, PersistFns) = {}

\* every flag set, persist.a empty live and "x" persisted: the context is returned
C17_Witness ==
    /\ LastIs("get")
    /\ last.name = nPersist
    /\ last.flags = 7
    /\ live[nPersist] = ""
    /\ pers[nPersist] = "x"
    /\ last.val = system_property_get_context(nPersist)
    /\ Len(OpCalls) = 1

\* what the step of an entry point leaves alone: last is the entry point
\* that ran in the step, the unprimed stores are those it started from
StoreFrame ==
    /\ last'.op \in {"set", "load"} =>
          /\ pers' = pers
          /\ CallsTo(last'.calls, PersistFns) = {}
    /\ last'.op \in {"get", "print"} =>
          /\ live' = live
          /\ pers' = pers
    /\ last'.op = "delete" =>
          \/ pers' = pers
          \/ isPersist(last'.flags) /\ str_starts(last'.name, PersistPrefix)

(***************************************************************************)
(* C18  Frame of the stores.  A set or a load of a file neither calls nor  *)
(* changes the persisted store, whatever the flags and the names; a get or *)
(* an enumeration changes neither store; a delete changes the persisted    *)
(* store only with use-persisted set on a persist. name.                   *)
(***************************************************************************)
C18_StoreFrame == [][StoreFrame]_vars

\* every flag set: set("persist.a", "xx") wrote the live entry, the persisted "x" stays
C18_Witness ==
    /\ LastIs("set")
    /\ last.name = nPersist
    /\ last.flags = 7
    /\ last.ret = 0
    /\ live[nPersist] = "xx"
    /\ pers[nPersist] = "x"
    /\ CallsTo(last.calls, PersistFns) = {}

(***************************************************************************)
(* C19  Initialization precedes use.  In every sequence of entry points,   *)
(* an entry point (resetprop_main or one of the four APIs) that calls the  *)
(* live or the persisted store has called InitOnce before: initialization  *)
(* has run in the process, it is the first logged call, and every call to  *)
(* a store comes after it.                                                 *)
(***************************************************************************)
C19_InitFirst ==
    StoreCalls # {} =>
        /\ initCount >= 1
        /\ last.calls[1][1] = "init"
        /\ \A i \in StoreCalls : i > 1

\* the second entry point of the process is the get API, and it read the live store
C19_Witness ==
    /\ initCount = 2
    /\ last.entry = "get_prop"
    /\ last.calls[1][1] = "init"
    /\ CallsTo(last.calls, {"read"}) = {3}

(***************************************************************************)
(* C20  One persisted-store call.  A single get, delete or enumeration     *)
(* issues at most one call to the persisted store, and a set issues none,  *)
(* whatever the flags, the name and the stores.                            *)
(***************************************************************************)
C20_OnePersistedCall ==
    /\ last.op \in {"get", "delete", "print"} =>
          Cardinality(CallsTo(last.calls, PersistFns)) <= 1
    /\ last.op = "set" => CallsTo(last.calls, PersistFns) = {}

\* persist.a is empty live and not persisted: the fallback asked once and got nothing
C20_Witness ==
    /\ LastIs("get")
    /\ last.name = nPersist
    /\ live[nPersist] = ""
    /\ pers[nPersist] = Absent
    /\ OpCalls = <<Call("find", nPersist, "", "found"), Call("read", nPersist, "", ""),
                   Call("persist_getprop", nPersist, "", "")>>

====
